---------------------------- MODULE Spec2Model ----------------------------
(***************************************************************************)
(* A model of webpage_semantic_parser.py: WebpageSemanticParser.           *)
(*                                                                         *)
(* Strings are sequences of tokens.  A URL such as                         *)
(* "http://a.com/doc.pdf?dl" is <<"http", ":", "//", "a.com", "/", "doc",  *)
(* ".pdf", "?", "dl">>, so that urlparse, urljoin, str.lower and           *)
(* str.endswith are computed on the text as the code computes them.        *)
(* A parsed document (BeautifulSoup) is a sequence of elements in document *)
(* order, each with a tag, a role attribute and the index of its parent    *)
(* (0 for the document itself).                                            *)
(***************************************************************************)
EXTENDS Integers, Sequences, FiniteSets, TLC

VARIABLES
    pc,          \* "idle" | "running" | "done" | "raised": where traverse_links is
    start_url,   \* url argument of the outermost traverse_links call
    depth0,      \* depth argument of the outermost call
    max_pages,   \* max_pages argument
    visited,     \* the visited set shared by the whole recursion
    base_url,    \* self.base_url (<<>> before the first page is parsed)
    stack,       \* the active traverse_links calls below parse_webpage, outermost first
    tree,        \* the index_tree dicts built so far: node id -> [url, error, links]
    result,      \* what the outermost call returned: 0 for {}, else a node id
    fetched,     \* history: the urls parse_webpage was called with, in order
    caller,      \* history: node id -> node id of the call that recursed into it (0: root)
    checked,     \* history: the (link, base_url, verdict) of every _should_follow_link call
    seen_again,  \* history: the links the loop met when they were visited already
    site_links,  \* history: how many links the pages fetched so far carry
    link,        \* the url argument of a _should_follow_link call made on its own
    follow,      \* <<>> before that call returns, the answer in a 1-tuple after
    soup,        \* self.soup when parse_main_content or parse_navigation is called
    main_content, \* <<>> before parse_main_content ends, <<outcome>> after
    navigation,  \* <<>> before parse_navigation returns, <<list of blocks>> after
    element,     \* the element infer_purpose is called on
    purpose,     \* what infer_purpose returned ("unset" before)
    page_source, \* <<>> before the first parse_webpage call, <<page>> of the latest after
    actionable_elements, \* self.actionable_elements: the dict, as its items in order
    page_data,   \* <<>> before parse_webpage ends, <<outcome>> of the latest call after
    now,         \* what time.time() returns, in ticks
    last_request_time, \* self.last_request_time: domain -> tick (0 for a domain not in it)
    rate_pc,     \* where a parse_webpage call is: "idle", "line73", "line75", "line76", "fetch"
    rate_url,    \* the url argument of that call (<<>> when there has been none)
    elapsed,     \* the local variable of _respect_rate_limits
    last_fetch,  \* history: domain -> <<the tick stamped for its latest fetch>>, <<>> for none
    this_call    \* history: the ticks of the current or latest call

crawl_vars == <<pc, start_url, depth0, max_pages, visited, base_url, stack,
                tree, result, fetched, caller, checked, seen_again, site_links>>

filter_vars == <<link, follow>>

page_vars == <<soup, main_content, navigation>>

purpose_vars == <<element, purpose>>

catalog_vars == <<page_source, actionable_elements, page_data>>

rate_vars == <<now, last_request_time, rate_pc, rate_url, elapsed, last_fetch,
               this_call>>

vars == <<crawl_vars, filter_vars, page_vars, purpose_vars, catalog_vars, rate_vars>>

-----------------------------------------------------------------------------
(* Bounds of the model *)

MaxDepth == 3
MaxPages == 3
\* The links of all the pages of a site, counted together.
MaxSiteLinks == 3

-----------------------------------------------------------------------------
(* Text helpers *)

\* Least index i >= from with s[i] in stops, or Len(s) + 1 when there is none.
RECURSIVE FirstOf(_, _, _)
FirstOf(s, stops, from) ==
    IF from > Len(s) THEN Len(s) + 1
    ELSE IF s[from] \in stops THEN from
    ELSE FirstOf(s, stops, from + 1)

\* str.lower on one token: the upper-case spellings the model uses.
LowerToken(t) ==
    CASE t = ".PDF" -> ".pdf"
      [] t = ".JPG" -> ".jpg"
      [] OTHER -> t

lower(s) == [i \in 1..Len(s) |-> LowerToken(s[i])]

endswith(s, suffix) == Len(s) > 0 /\ s[Len(s)] = suffix

-----------------------------------------------------------------------------
(* urllib.parse *)

\* urlparse(url).scheme: the text before the first ":" ("" when there is none).
urlparse_scheme(url) ==
    IF Len(url) >= 2 /\ url[2] = ":" THEN url[1] ELSE ""

AfterScheme(url) ==
    IF urlparse_scheme(url) = "" THEN url ELSE SubSeq(url, 3, Len(url))

\* urlparse(url).netloc: what follows "//" up to the next "/", "?" or "#".
urlparse_netloc(url) ==
    LET rest == AfterScheme(url) IN
    IF Len(rest) >= 1 /\ rest[1] = "//"
    THEN SubSeq(rest, 2, FirstOf(rest, {"/", "?", "#"}, 2) - 1)
    ELSE <<>>

\* urlparse(url).path: from the end of the netloc up to the first "?" or "#".
urlparse_path(url) ==
    LET rest == AfterScheme(url)
        from == IF Len(rest) >= 1 /\ rest[1] = "//"
                THEN FirstOf(rest, {"/", "?", "#"}, 2) ELSE 1
    IN SubSeq(rest, from, FirstOf(rest, {"?", "#"}, from) - 1)

\* urljoin(base, href) for the hrefs of the model: an absolute href is kept,
\* a root-relative one ("/p1") takes the scheme and netloc of base.
urljoin(base, href) ==
    IF urlparse_scheme(href) # "" THEN href
    ELSE <<urlparse_scheme(base), ":", "//">> \o urlparse_netloc(base) \o href

-----------------------------------------------------------------------------
(* The pages of the crawl *)

Body == [tag |-> "body", role |-> "", parent |-> 0]

\* Start URLs: the root page of either host.
StartURLs == {<<"http", ":", "//", "a.com", "/">>, <<"http", ":", "//", "b.com", "/">>}

\* The href attributes a page of the crawl may carry: two root-relative paths
\* and one absolute URL, which is another site's page when the crawl starts on
\* a.com and the start page itself when it starts on b.com.
Hrefs == {<<"/", "p1">>, <<"/", "p2">>, <<"http", ":", "//", "b.com", "/">>}

RECURSIVE SeqsUpTo(_, _)
SeqsUpTo(S, n) ==
    IF n = 0 THEN {<<>>}
    ELSE LET shorter == SeqsUpTo(S, n - 1)
         IN shorter \cup {Append(s, x) : s \in {t \in shorter : Len(t) = n - 1}, x \in S}

\* What the fetch collaborator and the markup parser yield for a URL: the fetch
\* fails, or there is a document (dom) with its a[href] values in document order.
\* `budget` is the number of links the page may carry.
CrawlPages(budget) ==
    {[status |-> "unreachable", dom |-> <<>>, hrefs |-> <<>>]}
    \cup {[status |-> "ok", dom |-> <<>>, hrefs |-> <<>>]}
    \cup {[status |-> "ok", dom |-> <<Body>>, hrefs |-> h] : h \in SeqsUpTo(Hrefs, budget)}

\* The same, tabulated.
PagesWithin == [budget \in 0..MaxSiteLinks |-> CrawlPages(budget)]

-----------------------------------------------------------------------------
(* Document queries (BeautifulSoup) *)

\* soup.find(name): the first element with that tag in document order, 0 (None)
\* when there is none.
RECURSIVE FindFrom(_, _, _)
FindFrom(dom, names, from) ==
    IF from > Len(dom) THEN 0
    ELSE IF dom[from].tag \in names THEN from
    ELSE FindFrom(dom, names, from + 1)

find(dom, names) == FindFrom(dom, names, 1)

\* The proper ancestors of element n (element.parents, without the document).
RECURSIVE Ancestors(_, _)
Ancestors(dom, n) ==
    IF dom[n].parent = 0 THEN {}
    ELSE {dom[n].parent} \cup Ancestors(dom, dom[n].parent)

\* container.find_all(names): the descendants of element `container` with one
\* of these tag names, in document order; container 0 is the document.
find_all(dom, container, names) ==
    SelectSeq([i \in 1..Len(dom) |-> i],
              LAMBDA i : /\ dom[i].tag \in names
                         /\ container = 0 \/ container \in Ancestors(dom, i))

\* container.find(names): the first such descendant, 0 (None) without one.
find_in(dom, container, names) ==
    LET all == find_all(dom, container, names)
    IN IF all = <<>> THEN 0 ELSE all[1]

\* element.find_parent(name) is not None.
has_parent(dom, n, name) == \E a \in Ancestors(dom, n) : dom[a].tag = name

heading_tags == {"h1", "h2", "h3", "h4", "h5", "h6"}

\* int(heading.name[1])
heading_level(tag) ==
    CASE tag = "h1" -> 1 [] tag = "h2" -> 2 [] tag = "h3" -> 3
      [] tag = "h4" -> 4 [] tag = "h5" -> 5 [] tag = "h6" -> 6

extract_heading_hierarchy(dom, container) ==
    LET headings == find_all(dom, container, heading_tags)
    IN [k \in 1..Len(headings) |->
            [element |-> headings[k], level |-> heading_level(dom[headings[k]].tag)]]

\* 'region' in section.get('role', ''), for the role values of the model.
region_roles == {"region"}

\* One PageSection per section, article or div whose role contains "region":
\* the element and its first heading (0 for None).
extract_sections(dom, container) ==
    LET found == SelectSeq(find_all(dom, container, {"section", "article", "div"}),
                           LAMBDA i : dom[i].role \in region_roles)
    IN [k \in 1..Len(found) |->
            [element |-> found[k], heading |-> find_in(dom, found[k], heading_tags)]]

\* parse_main_content: the exception it raises ("" when it returns) and the
\* dict it returns. `main` is None when the document has neither a main nor a
\* body element, and extract_heading_hierarchy then calls None.find_all.
parse_main_content(dom) ==
    LET m    == find(dom, {"main"})
        main == IF m # 0 THEN m ELSE find(dom, {"body"})
    IN IF main = 0
       THEN [raised |-> "AttributeError", headings |-> <<>>, sections |-> <<>>]
       ELSE [raised |-> "",
             headings |-> extract_heading_hierarchy(dom, main),
             sections |-> extract_sections(dom, main)]

\* The names parse_navigation hands to find_all, which compares each with the
\* tag name of an element.
nav_names == {"nav", "[role=\"navigation\"]"}

\* parse_navigation: one block per element find_all returns, with its location.
parse_navigation(dom) ==
    LET nav_elements == find_all(dom, 0, nav_names)
    IN [k \in 1..Len(nav_elements) |->
            [element  |-> nav_elements[k],
             location |-> IF has_parent(dom, nav_elements[k], "header") THEN "header"
                          ELSE IF has_parent(dom, nav_elements[k], "footer") THEN "footer"
                          ELSE "other"]]

-----------------------------------------------------------------------------
(* parse_webpage *)

\* extract_all_links: every a[href], joined to self.base_url (the page's url).
extract_all_links(hrefs, base) == [i \in 1..Len(hrefs) |-> urljoin(base, hrefs[i])]

\* parse_webpage(url) on a parser whose base_url is `base`, when the collaborators
\* yield `page`: the exception raised ("" for none), self.base_url afterwards, and
\* the 'all_links' of the returned dict.
parse_webpage(url, page, base) ==
    IF page.status = "unreachable"
    THEN [raised |-> "FetchError", base_url |-> base, all_links |-> <<>>]
    ELSE LET err == parse_main_content(page.dom).raised IN
         IF err # ""
         THEN [raised |-> err, base_url |-> url, all_links |-> <<>>]
         ELSE [raised |-> "", base_url |-> url,
               all_links |-> extract_all_links(page.hrefs, url)]

-----------------------------------------------------------------------------
(* _should_follow_link *)

skip_extensions == {".pdf", ".jpg", ".png", ".gif", ".zip"}

\* The filter without the same-domain test of lines 501-503.
should_follow_any_host(url, base) ==
    IF urlparse_scheme(url) \notin {"http", "https"} THEN FALSE
    ELSE IF \E ext \in skip_extensions : endswith(lower(url), ext) THEN FALSE
    ELSE TRUE

_should_follow_link(url, base) ==
    IF urlparse_scheme(url) \notin {"http", "https"} THEN FALSE
    ELSE IF \E ext \in skip_extensions : endswith(lower(url), ext) THEN FALSE
    ELSE IF urlparse_netloc(url) # urlparse_netloc(base) THEN FALSE
    ELSE TRUE

-----------------------------------------------------------------------------
(* traverse_links *)

\* Admitted without the page cap of lines 453-455.
AdmittedNoCap(url, depth, vis, mp) == ~(depth = 0 \/ url \in vis)

\* Lines 453-458: the call goes on to visit url.
Admitted(url, depth, vis, mp) ==
    /\ ~(Cardinality(vis) >= mp)
    /\ ~(depth = 0 \/ url \in vis)

\* Line 461 left out.
visited_add_forgotten(vis, url) == vis

\* Line 461.
visited_add(vis, url) == vis \cup {url}

\* An except clause that names the fetch collaborator's exceptions only.
except_FetchError(raised) == raised = "FetchError"

\* Line 465: `except Exception` catches whatever parse_webpage raises.
except_Exception(raised) == raised \in {"FetchError", "AttributeError"}

\* The recursive call made with depth instead of depth - 1.
child_depth_same(depth) == depth

\* Line 482: the depth passed to the recursive call.
child_depth(depth) == depth - 1

\* A loop that does not move on.
next_link_stuck(i) == i

\* Line 479: the for loop moves to the next link.
next_link(i) == i + 1

Top == stack[Len(stack)]

\* A traversal step leaves the variables of the single-call specifications alone.
CrawlOnly == UNCHANGED <<filter_vars, page_vars, purpose_vars, catalog_vars, rate_vars>>

\* A call that returned `id` (0 for {}) to the loop of the frame on top of `stk`:
\* lines 483-484, then the next link.
Resume(stk, tr, id) ==
    LET n == Len(stk) IN
    [stack |-> [stk EXCEPT ![n].i = next_link(@)],
     tree  |-> IF id # 0
               THEN [tr EXCEPT ![stk[n].node].links = Append(@, id)]
               ELSE tr]

\* Lines 461-477 of a call that passed the admission check: mark, parse, and
\* either return the error node to the caller or start the loop over the links.
Visit(url, depth, page) ==
    LET r    == parse_webpage(url, page, base_url)
        id   == Len(tree) + 1
        from == IF stack = <<>> THEN 0 ELSE Top.node
    IN
    /\ site_links' = site_links + Len(page.hrefs)
    /\ visited' = visited_add(visited, url)
    /\ fetched' = Append(fetched, url)
    /\ base_url' = r.base_url
    /\ caller' = Append(caller, from)
    /\ IF r.raised # "" /\ ~except_Exception(r.raised)
       THEN /\ pc' = "raised"
            /\ stack' = <<>>
            /\ UNCHANGED <<tree, result>>
       ELSE IF r.raised # ""
       THEN LET node == [url |-> url, error |-> TRUE, links |-> <<>>]
                tr   == Append(tree, node)
            IN IF stack = <<>>
               THEN /\ tree' = tr
                    /\ result' = id
                    /\ pc' = "done"
                    /\ UNCHANGED stack
               ELSE /\ stack' = Resume(stack, tr, id).stack
                    /\ tree' = Resume(stack, tr, id).tree
                    /\ UNCHANGED <<pc, result>>
       ELSE /\ tree' = Append(tree, [url |-> url, error |-> FALSE, links |-> <<>>])
            /\ stack' = Append(stack, [url |-> url, depth |-> depth,
                                       links |-> r.all_links, i |-> 1, node |-> id])
            /\ pc' = "running"
            /\ UNCHANGED result

\* traverse_links(u, d, None, mp) returns {} at once.
TraverseRejected(u, d, mp) ==
    /\ pc = "idle"
    /\ ~Admitted(u, d, {}, mp)
    /\ start_url' = u /\ depth0' = d /\ max_pages' = mp
    /\ result' = 0
    /\ pc' = "done"
    /\ CrawlOnly
    /\ UNCHANGED <<visited, base_url, stack, tree, fetched, caller, checked,
                   seen_again, site_links>>

\* traverse_links(u, d, None, mp) visits u.
TraverseAdmitted(u, d, mp) ==
    /\ pc = "idle"
    /\ Admitted(u, d, {}, mp)
    /\ start_url' = u /\ depth0' = d /\ max_pages' = mp
    /\ \E page \in PagesWithin[MaxSiteLinks - site_links] : Visit(u, d, page)
    /\ UNCHANGED <<checked, seen_again>>
    /\ CrawlOnly

CurrentLink == Top.links[Top.i]

InLoop == pc = "running" /\ stack # <<>> /\ Top.i <= Len(Top.links)

\* Line 481 is false: the link is visited already (the filter is not asked), or
\* the filter rejects it.
SkipLink ==
    /\ InLoop
    /\ \/ /\ CurrentLink \in visited
          /\ seen_again' = seen_again \cup {CurrentLink}
          /\ UNCHANGED checked
       \/ /\ CurrentLink \notin visited
          /\ ~_should_follow_link(CurrentLink, base_url)
          /\ checked' = checked \cup
                {[link |-> CurrentLink, base |-> base_url, verdict |-> FALSE]}
          /\ UNCHANGED seen_again
    /\ stack' = Resume(stack, tree, 0).stack
    /\ UNCHANGED <<pc, start_url, depth0, max_pages, visited, base_url, tree,
                   result, fetched, caller, site_links>>
    /\ CrawlOnly

Followed ==
    /\ InLoop
    /\ CurrentLink \notin visited
    /\ _should_follow_link(CurrentLink, base_url)
    /\ checked' = checked \cup
          {[link |-> CurrentLink, base |-> base_url, verdict |-> TRUE]}
    /\ UNCHANGED seen_again

\* Line 482 returns {}: the recursive call fails its admission check.
RecurseRejected ==
    /\ Followed
    /\ ~Admitted(CurrentLink, child_depth(Top.depth), visited, max_pages)
    /\ stack' = Resume(stack, tree, 0).stack
    /\ UNCHANGED <<pc, start_url, depth0, max_pages, visited, base_url, tree,
                   result, fetched, caller, site_links>>
    /\ CrawlOnly

\* Line 482: the recursive call visits the link.
RecurseAdmitted ==
    /\ Followed
    /\ Admitted(CurrentLink, child_depth(Top.depth), visited, max_pages)
    /\ \E page \in PagesWithin[MaxSiteLinks - site_links] :
          Visit(CurrentLink, child_depth(Top.depth), page)
    /\ UNCHANGED <<start_url, depth0, max_pages>>
    /\ CrawlOnly

\* Line 486: the loop is over, index_tree goes back to the caller.
Return ==
    /\ pc = "running" /\ stack # <<>> /\ Top.i > Len(Top.links)
    /\ LET below == SubSeq(stack, 1, Len(stack) - 1) IN
       IF below = <<>>
       THEN /\ result' = Top.node
            /\ pc' = "done"
            /\ stack' = <<>>
            /\ UNCHANGED tree
       ELSE /\ stack' = Resume(below, tree, Top.node).stack
            /\ tree' = Resume(below, tree, Top.node).tree
            /\ UNCHANGED <<pc, result>>
    /\ UNCHANGED <<start_url, depth0, max_pages, visited, base_url, fetched,
                   caller, checked, seen_again, site_links>>
    /\ CrawlOnly

\* No traversal under way, on a parser whose base_url is `base`.
CrawlIdle(base) ==
    /\ pc = "idle"
    /\ start_url = <<>> /\ depth0 = 0 /\ max_pages = 0
    /\ visited = {}
    /\ base_url = base
    /\ stack = <<>>
    /\ tree = <<>>
    /\ result = 0
    /\ fetched = <<>>
    /\ caller = <<>>
    /\ checked = {}
    /\ seen_again = {}
    /\ site_links = 0

NoFilterCall == link = <<>> /\ follow = <<>>

NoPageCall == soup = <<>> /\ main_content = <<>> /\ navigation = <<>>

NoPurposeCall == element = <<>> /\ purpose = "unset"

\* Lines 55-56: no page parsed yet, self.actionable_elements = {}.
NoWebpageCall == page_source = <<>> /\ actionable_elements = <<>> /\ page_data = <<>>

\* The minimum number of ticks between two requests to one domain (a tick is
\* half a second).
request_delay == 2

\* The domains of the URLs that are rate-limited in the model.
Domains == {<<"a.com">>, <<"b.com">>}

NoCallYet == [read_at |-> <<>>, slept |-> <<>>, stamped |-> <<>>, before |-> <<>>,
              started |-> <<>>]

\* Lines 57-58: no request made yet. time.time() counts from 1970, so the 0.0
\* of a domain never requested lies at least request_delay back.
NoRequest ==
    /\ now = request_delay
    /\ last_request_time = [d \in Domains |-> 0]
    /\ rate_pc = "idle"
    /\ rate_url = <<>>
    /\ elapsed = 0
    /\ last_fetch = [d \in Domains |-> <<>>]
    /\ this_call = NoCallYet

Init ==
    /\ CrawlIdle(<<>>)
    /\ NoFilterCall /\ NoPageCall /\ NoPurposeCall /\ NoWebpageCall /\ NoRequest

Next ==
    \/ \E u \in StartURLs, d \in 0..MaxDepth, mp \in 0..MaxPages :
          TraverseRejected(u, d, mp)
    \/ \E u \in StartURLs, d \in 0..MaxDepth, mp \in 0..MaxPages :
          TraverseAdmitted(u, d, mp)
    \/ SkipLink
    \/ RecurseRejected
    \/ RecurseAdmitted
    \/ Return

Spec == Init /\ [][Next]_vars

\* The recursion proceeds once traverse_links has been called.
Step == SkipLink \/ RecurseRejected \/ RecurseAdmitted \/ Return

FairSpec == Spec /\ WF_vars(Step)

-----------------------------------------------------------------------------
(* _should_follow_link called on its own *)

FilterSchemes == {"http", "https", "ftp"}

FilterHosts == {"a.com", "b.com"}

FilterPaths == {<<"/">>, <<"/", "doc">>, <<"/", "doc", ".html">>, <<"/", "doc", ".pdf">>,
                <<"/", "doc", ".PDF">>, <<"/", "pic", ".jpg">>, <<"/", "a", ".zip", "/", "doc">>}

FilterQueries == {<<>>, <<"?", "dl">>, <<"?", "f=x", ".pdf">>}

FilterFragments == {<<>>, <<"#", "top">>, <<"#", "fig", ".png">>}

FilterURLs ==
    {<<sc, ":", "//", h>> \o pa \o q \o f :
        sc \in FilterSchemes, h \in FilterHosts, pa \in FilterPaths,
        q \in FilterQueries, f \in FilterFragments}
    \cup {<<"mailto", ":", "bob@a.com">>}

FilterInit ==
    /\ \E b \in StartURLs : CrawlIdle(b)
    /\ link \in FilterURLs
    /\ follow = <<>>
    /\ NoPageCall /\ NoPurposeCall /\ NoWebpageCall /\ NoRequest

ShouldFollowLink ==
    /\ follow = <<>>
    /\ follow' = <<_should_follow_link(link, base_url)>>
    /\ UNCHANGED <<link, crawl_vars, page_vars, purpose_vars, catalog_vars,
                   rate_vars>>

FilterNext == ShouldFollowLink

FilterSpec == FilterInit /\ [][FilterNext]_vars

\* The path of the URL ends in a denylisted extension.
PathEndsInSkipExtension(url) ==
    \E ext \in skip_extensions : endswith(lower(urlparse_path(url)), ext)

\* C7. Link filtering by extension: a link is followed only if its scheme is
\* http or https and its path does not end in a denylisted extension, whatever
\* query or fragment follows the path; a link with such a scheme, the parser's
\* host and a path that does not end so is followed.
FilterOnPath ==
    follow # <<>> =>
        follow[1] = (/\ urlparse_scheme(link) \in {"http", "https"}
                     /\ ~PathEndsInSkipExtension(link)
                     /\ urlparse_netloc(link) = urlparse_netloc(base_url))

-----------------------------------------------------------------------------
(* parse_main_content and parse_navigation called on a parsed document *)

MaxElements == 3

\* The elements of the documents: a tag and a role attribute ("" for none).
ElementKinds ==
    {[tag |-> "main", role |-> ""], [tag |-> "body", role |-> ""],
     [tag |-> "header", role |-> ""], [tag |-> "footer", role |-> ""],
     [tag |-> "nav", role |-> ""], [tag |-> "h2", role |-> ""],
     [tag |-> "div", role |-> ""], [tag |-> "div", role |-> "region"],
     [tag |-> "div", role |-> "navigation"]}

\* Where the next element of a document in document order may hang: under the
\* document, under the last element or under one of its ancestors.
OpenElements(dom) ==
    IF dom = <<>> THEN {0} ELSE {0, Len(dom)} \cup Ancestors(dom, Len(dom))

\* The documents of at most n elements.
RECURSIVE Documents(_)
Documents(n) ==
    IF n = 0 THEN {<<>>}
    ELSE LET shorter == Documents(n - 1)
         IN shorter \cup UNION
            {{Append(d, [tag |-> k.tag, role |-> k.role, parent |-> q]) :
                 k \in ElementKinds, q \in OpenElements(d)} :
             d \in {t \in shorter : Len(t) = n - 1}}

PageInit ==
    /\ CrawlIdle(<<>>)
    /\ soup \in Documents(MaxElements)
    /\ main_content = <<>>
    /\ navigation = <<>>
    /\ NoFilterCall /\ NoPurposeCall /\ NoWebpageCall /\ NoRequest

ParseMainContent ==
    /\ main_content = <<>>
    /\ main_content' = <<parse_main_content(soup)>>
    /\ UNCHANGED <<soup, navigation, crawl_vars, filter_vars, purpose_vars, catalog_vars,
                   rate_vars>>

ParseNavigation ==
    /\ navigation = <<>>
    /\ navigation' = <<parse_navigation(soup)>>
    /\ UNCHANGED <<soup, main_content, crawl_vars, filter_vars, purpose_vars, catalog_vars,
                   rate_vars>>

PageNext == ParseMainContent \/ ParseNavigation

PageSpec == PageInit /\ [][PageNext]_vars

\* C8. Missing main content is not an error: on a document with neither a main
\* nor a body element parse_main_content returns, with empty headings and
\* empty sections.
MissingMainIsEmpty ==
    /\ main_content # <<>>
    /\ find(soup, {"main"}) = 0
    /\ find(soup, {"body"}) = 0
    => /\ main_content[1].raised = ""
       /\ main_content[1].headings = <<>>
       /\ main_content[1].sections = <<>>

\* The nav landmarks of a document, in document order: the nav elements and
\* the elements of any tag with role="navigation".
NavLandmarks(dom) ==
    SelectSeq([i \in 1..Len(dom) |-> i],
              LAMBDA i : dom[i].tag = "nav" \/ dom[i].role = "navigation")

\* C10. Navigation landmarks: parse_navigation yields exactly one block per nav
\* landmark (a nav element, or an element of any tag with role="navigation"),
\* located "header" under a header ancestor, else "footer" under a footer
\* ancestor, else "other".
OneBlockPerLandmark ==
    navigation # <<>> =>
        LET marks == NavLandmarks(soup) IN
        /\ Len(navigation[1]) = Len(marks)
        /\ \A k \in 1..Len(marks) :
              /\ navigation[1][k].element = marks[k]
              /\ navigation[1][k].location =
                    IF \E a \in Ancestors(soup, marks[k]) : soup[a].tag = "header"
                    THEN "header"
                    ELSE IF \E a \in Ancestors(soup, marks[k]) : soup[a].tag = "footer"
                    THEN "footer"
                    ELSE "other"

-----------------------------------------------------------------------------
(* infer_purpose *)

\* Here a string is the sequence of its characters.
LowerChar(c) ==
    CASE c = "A" -> "a"
      [] c = "B" -> "b"
      [] c = "C" -> "c"
      [] c = "D" -> "d"
      [] c = "E" -> "e"
      [] c = "F" -> "f"
      [] c = "G" -> "g"
      [] c = "H" -> "h"
      [] c = "I" -> "i"
      [] c = "J" -> "j"
      [] c = "K" -> "k"
      [] c = "L" -> "l"
      [] c = "M" -> "m"
      [] c = "N" -> "n"
      [] c = "O" -> "o"
      [] c = "P" -> "p"
      [] c = "Q" -> "q"
      [] c = "R" -> "r"
      [] c = "S" -> "s"
      [] c = "T" -> "t"
      [] c = "U" -> "u"
      [] c = "V" -> "v"
      [] c = "W" -> "w"
      [] c = "X" -> "x"
      [] c = "Y" -> "y"
      [] c = "Z" -> "z"
      [] OTHER -> c

lower_chars(str) == [i \in 1..Len(str) |-> LowerChar(str[i])]

\* sub occurs in str.
Contains(str, sub) ==
    \E i \in 1..(Len(str) - Len(sub) + 1) : SubSeq(str, i, i + Len(sub) - 1) = sub

\* ' '.join(class_list)
RECURSIVE join(_)
join(class_list) ==
    IF class_list = <<>> THEN <<>>
    ELSE IF Len(class_list) = 1 THEN class_list[1]
    ELSE class_list[1] \o <<" ">> \o join(Tail(class_list))

\* Lines 188-199: the rules in the order of the dict, each pattern as the set
\* of its alternatives.
action_patterns == <<
    [action |-> "submit", pattern |->
          {<<"s", "u", "b", "m", "i", "t">>,
           <<"s", "e", "n", "d">>,
           <<"s", "a", "v", "e">>,
           <<"c", "o", "n", "f", "i", "r", "m">>,
           <<"o", "k">>,
           <<"a", "p", "p", "l", "y">>}],
    [action |-> "search", pattern |->
          {<<"s", "e", "a", "r", "c", "h">>,
           <<"f", "i", "n", "d">>,
           <<"l", "o", "o", "k", "u", "p">>}],
    [action |-> "navigate", pattern |->
          {<<"m", "e", "n", "u">>,
           <<"n", "a", "v">>,
           <<"g", "o", " ", "t", "o">>,
           <<"l", "i", "n", "k">>}],
    [action |-> "delete", pattern |->
          {<<"d", "e", "l", "e", "t", "e">>,
           <<"r", "e", "m", "o", "v", "e">>,
           <<"c", "l", "e", "a", "r">>}],
    [action |-> "edit", pattern |->
          {<<"e", "d", "i", "t">>,
           <<"m", "o", "d", "i", "f", "y">>,
           <<"c", "h", "a", "n", "g", "e">>,
           <<"u", "p", "d", "a", "t", "e">>}],
    [action |-> "form", pattern |->
          {<<"f", "o", "r", "m">>,
           <<"i", "n", "p", "u", "t">>,
           <<"e", "n", "t", "e", "r">>}],
    [action |-> "login", pattern |->
          {<<"l", "o", "g", "i", "n">>,
           <<"s", "i", "g", "n", " ", "i", "n">>,
           <<"s", "i", "g", "n", "i", "n">>}],
    [action |-> "register", pattern |->
          {<<"r", "e", "g", "i", "s", "t", "e", "r">>,
           <<"s", "i", "g", "n", " ", "u", "p">>,
           <<"s", "i", "g", "n", "u", "p">>}],
    [action |-> "download", pattern |->
          {<<"d", "o", "w", "n", "l", "o", "a", "d">>,
           <<"e", "x", "p", "o", "r", "t">>,
           <<"g", "e", "t">>}],
    [action |-> "upload", pattern |->
          {<<"u", "p", "l", "o", "a", "d">>,
           <<"i", "m", "p", "o", "r", "t">>,
           <<"a", "t", "t", "a", "c", "h">>}] >>

\* re.search(pattern, signal, re.I) for a pattern that is a list of literal
\* alternatives.
re_search(pattern, signal) ==
    LET folded == lower_chars(signal)
    IN \E alt \in pattern : Contains(folded, alt)

\* The signals with the id in front of the visible text.
signals_id_first(e) ==
    LET attrs == <<e["id"], e["text"], e["aria_label"], e["title"], e["placeholder"],
                   e["name"]>>
        all   == IF e["class"] # <<>> THEN Append(attrs, join(e["class"])) ELSE attrs
    IN SelectSeq(all, LAMBDA x : x # <<>>)

\* Lines 171-186: the signal strings, in order, without the empty ones. An
\* attribute the element does not carry (None) is <<>>, like the empty string.
signals(e) ==
    LET attrs == <<e["text"], e["aria_label"], e["title"], e["placeholder"], e["name"],
                   e["id"]>>
        all   == IF e["class"] # <<>> THEN Append(attrs, join(e["class"])) ELSE attrs
    IN SelectSeq(all, LAMBDA x : x # <<>>)

\* Lines 202-205 for one signal: the first rule from r on that matches, "" for none.
RECURSIVE first_action(_, _)
first_action(signal, r) ==
    IF r > Len(action_patterns) THEN ""
    ELSE IF re_search(action_patterns[r].pattern, signal) THEN action_patterns[r].action
    ELSE first_action(signal, r + 1)

\* Lines 201-208 from signal k on.
RECURSIVE scan_signals(_, _)
scan_signals(sigs, k) ==
    IF k > Len(sigs) THEN "unknown"
    ELSE LET action == first_action(sigs[k], 1)
         IN IF action # "" THEN action ELSE scan_signals(sigs, k + 1)

infer_purpose(e) == scan_signals(signals(e), 1)

\* At most this many of an element's seven signals are non-empty.
MaxSignals == 2

\* The texts and attribute values of the elements.
Words ==
    {<<"S", "a", "v", "e">>,
     <<"S", "e", "a", "r", "c", "h">>,
     <<"l", "o", "o", "k", "u", "p">>,
     <<"M", "e", "n", "u">>,
     <<"D", "e", "l", "e", "t", "e">>,
     <<"s", "i", "g", "n", "u", "p">>,
     <<"b", "t", "n">>}

\* The class lists: one class, or "btn" and another class.
ClassLists == {<<w>> : w \in Words} \cup {<<<<"b", "t", "n">>, w>> : w \in Words}

TextSlots == {"text", "aria_label", "title", "placeholder", "name", "id"}

\* The elements with at most n non-empty signals.
Elements(n) ==
    UNION {UNION {{[k \in TextSlots \cup {"class"} |->
                       IF k = "class" THEN c ELSE IF k \in S THEN f[k] ELSE <<>>] :
                   f \in [S -> Words]} :
                  S \in {R \in SUBSET TextSlots :
                            Cardinality(R) + (IF c = <<>> THEN 0 ELSE 1) <= n}} :
           c \in {<<>>} \cup ClassLists}

PurposeInit ==
    /\ CrawlIdle(<<>>)
    /\ element \in Elements(MaxSignals)
    /\ purpose = "unset"
    /\ NoFilterCall /\ NoPageCall /\ NoWebpageCall /\ NoRequest

InferPurpose ==
    /\ purpose = "unset"
    /\ purpose' = infer_purpose(element)
    /\ UNCHANGED <<element, crawl_vars, filter_vars, page_vars, catalog_vars,
                   rate_vars>>

PurposeNext == InferPurpose

PurposeSpec == PurposeInit /\ [][PurposeNext]_vars

\* The order of the signals and of the rules, as the law states them.
SignalPriority == <<"text", "aria_label", "title", "placeholder", "name", "id", "class">>

RulePriority == <<"submit", "search", "navigate", "delete", "edit", "form", "login",
                  "register", "download", "upload">>

SignalText(e, name) == IF name = "class" THEN join(e["class"]) ELSE e[name]

PatternOf(action) ==
    (CHOOSE r \in {action_patterns[k] : k \in 1..Len(action_patterns)} :
        r.action = action).pattern

\* Signal number si is non-empty and rule number ri matches it.
Hit(e, si, ri) ==
    /\ SignalText(e, SignalPriority[si]) # <<>>
    /\ re_search(PatternOf(RulePriority[ri]), SignalText(e, SignalPriority[si]))

Hits(e) == {h \in (1..Len(SignalPriority)) \X (1..Len(RulePriority)) : Hit(e, h[1], h[2])}

\* The first of a set of (signal, rule) pairs: least signal, then least rule.
First(hits) ==
    CHOOSE h \in hits :
        \A g \in hits : h[1] < g[1] \/ (h[1] = g[1] /\ h[2] <= g[2])

\* The rules that match the signal of that name, among the pairs `hits`.
RulesMatching(hits, name) ==
    {RulePriority[h[2]] : h \in {g \in hits : SignalPriority[g[1]] = name}}

\* C9. Signal priority, first match: the purpose is the label of the first
\* (signal, rule) pair that matches, signals taken in the order text,
\* aria-label, title, placeholder, name, id, class and rules in the order
\* submit .. upload, and "unknown" when no pair matches; so when the text
\* matches a rule, the purpose is a rule the text matches, whatever the id
\* matches.
SignalPriorityLaw ==
    purpose # "unset" =>
        LET hits == Hits(element) IN
        /\ purpose = IF hits = {} THEN "unknown" ELSE RulePriority[First(hits)[2]]
        /\ RulesMatching(hits, "text") # {} => purpose \in RulesMatching(hits, "text")

\* The text matches only "delete", the id only "search", a rule that comes
\* before "delete": the purpose is "delete".
TextBeatsId ==
    /\ purpose = "delete"
    /\ RulesMatching(Hits(element), "text") = {"delete"}
    /\ RulesMatching(Hits(element), "id") = {"search"}

-----------------------------------------------------------------------------
(* parse_webpage called page after page on one parser *)

\* At most this many elements in the body of a page.
MaxPageElements == 2

\* Lines 130-134: the selectors in order. A name selects by tag, [role="r"] by
\* the role attribute; "" stands for any.
selectors == <<
    [tag |-> "button", role |-> ""],
    [tag |-> "input", role |-> ""],
    [tag |-> "a", role |-> ""],
    [tag |-> "select", role |-> ""],
    [tag |-> "", role |-> "button"],
    [tag |-> "", role |-> "link"],
    [tag |-> "", role |-> "menuitem"],
    [tag |-> "form", role |-> ""] >>

\* self.soup.select(selector): the matching elements in document order.
select(dom, selector) ==
    SelectSeq([i \in 1..Len(dom) |-> i],
              LAMBDA i : /\ selector.tag = "" \/ dom[i].tag = selector.tag
                         /\ selector.role = "" \/ dom[i].role = selector.role)

\* What makes two elements equal, and so one key of a dict: name, attributes
\* and contents, not the place in a document.
Markup(e) == [tag |-> e.tag, role |-> e.role, text |-> e.text]

\* The element as infer_purpose reads it: its text, and no other signal.
Signals(e) ==
    [k \in TextSlots \cup {"class"} |-> IF k = "text" THEN e.text ELSE <<>>]

\* The elements of the pages: two buttons, a div with role="button", a form,
\* and a paragraph, which no selector matches.
WidgetKinds ==
    {[tag |-> "button", role |-> "", text |-> <<"S", "e", "a", "r", "c", "h">>],
     [tag |-> "button", role |-> "", text |-> <<"S", "a", "v", "e">>],
     [tag |-> "div", role |-> "button", text |-> <<"D", "e", "l", "e", "t", "e">>],
     [tag |-> "form", role |-> "", text |-> <<>>],
     [tag |-> "p", role |-> "", text |-> <<"S", "e", "a", "r", "c", "h">>]}

\* self.infer_purpose(element) for each of these elements.
purpose_of == [w \in WidgetKinds |-> infer_purpose(Signals(w))]

\* get_element_context, for pages without headings, named forms and anchors:
\* section_heading, form_name and url are None.
get_element_context(dom, i) ==
    [in_navigation |-> has_parent(dom, i, "nav"),
     in_list       |-> \/ has_parent(dom, i, "ul")
                       \/ has_parent(dom, i, "ol")]

\* analyze_element: the ElementSemantics of element i (is_actionable is True).
analyze_element(dom, i) ==
    [element_type |-> dom[i].tag,
     purpose      |-> purpose_of[Markup(dom[i])],
     context      |-> get_element_context(dom, i),
     aria_labels  |-> [role |-> dom[i].role]]

\* d[key] = value on a dict kept as the sequence of its items: an equal key
\* keeps its place and takes the new value, a new key goes last.
dict_set(d, key, value) ==
    IF \E k \in 1..Len(d) : d[k].key = key
    THEN [k \in 1..Len(d) |->
            IF d[k].key = key THEN [key |-> key, value |-> value] ELSE d[k]]
    ELSE Append(d, [key |-> key, value |-> value])

\* Lines 139-142 from element number k of `elements` on.
RECURSIVE store_elements(_, _, _, _)
store_elements(dom, elements, k, actionable) ==
    IF k > Len(elements) THEN actionable
    ELSE store_elements(dom, elements, k + 1,
            dict_set(actionable, Markup(dom[elements[k]]),
                     analyze_element(dom, elements[k])))

\* Lines 136-142 from selector number s on.
RECURSIVE identify_from(_, _, _)
identify_from(dom, s, actionable) ==
    IF s > Len(selectors) THEN actionable
    ELSE identify_from(dom, s + 1,
            store_elements(dom, select(dom, selectors[s]), 1, actionable))

\* identify_interactive_elements: self.actionable_elements afterwards. Nothing
\* empties the dict first.
identify_interactive_elements(dom, actionable) == identify_from(dom, 1, actionable)

\* get_available_actions: purpose -> the summaries of the items with that
\* purpose, in the order of the dict.
get_available_actions(actionable) ==
    LET purposes == {actionable[k].value.purpose : k \in 1..Len(actionable)}
    IN [p \in purposes |->
          LET items == SelectSeq(actionable, LAMBDA it : it.value.purpose = p)
          IN [k \in 1..Len(items) |->
                [element_type  |-> items[k].value.element_type,
                 context       |-> items[k].value.context,
                 accessibility |-> items[k].value.aria_labels]]]

\* parse_forms(): the forms of the document.
parse_forms(dom) == find_all(dom, 0, {"form"})

\* identify_possible_tasks: a task per form, a task per navigation block, and
\* the search task when the catalog has a "search" bucket.
identify_possible_tasks(dom, actionable) ==
    LET forms == parse_forms(dom)
        navs  == parse_navigation(dom)
    IN [k \in 1..Len(forms) |-> [type |-> "form_submission", at |-> forms[k]]]
       \o [k \in 1..Len(navs) |-> [type |-> "navigation", at |-> navs[k].element]]
       \o (IF "search" \in DOMAIN get_available_actions(actionable)
           THEN <<[type |-> "search", at |-> 0]>> ELSE <<>>)

PageBody == [tag |-> "body", role |-> "", parent |-> 0, text |-> <<>>]

Under(kinds, parent) ==
    [k \in 1..Len(kinds) |->
        [tag |-> kinds[k].tag, role |-> kinds[k].role, parent |-> parent,
         text |-> kinds[k].text]]

\* What the fetch collaborator and the markup parser yield: the fetch fails, or
\* there is a document of at most n elements, inside a body or without one.
WebPages(n) ==
    {[status |-> "unreachable", dom |-> <<>>]}
    \cup {[status |-> "ok", dom |-> Under(w, 0)] : w \in SeqsUpTo(WidgetKinds, n)}
    \cup {[status |-> "ok", dom |-> <<PageBody>> \o Under(w, 1)] :
             w \in SeqsUpTo(WidgetKinds, n)}

\* The same, tabulated.
PagesOfSite == WebPages(MaxPageElements)

\* The url argument of these calls: the catalog does not depend on it.
PageURLs == {<<"http", ":", "//", "a.com", "/">>}

\* parse_webpage(url) when the collaborators yield `page`, lines 94-124: a
\* fetch that fails leaves the parser as it was; else the elements are
\* identified, build_semantic_hierarchy raises or not, and the dict is returned.
ParseWebpage ==
    \E url \in PageURLs, page \in PagesOfSite :
        LET r   == parse_webpage(url, [status |-> page.status, dom |-> page.dom,
                                       hrefs |-> <<>>], base_url)
            act == IF page.status = "unreachable" THEN actionable_elements
                   ELSE identify_interactive_elements(page.dom, actionable_elements)
        IN
        /\ page_source' = <<page>>
        /\ base_url' = r.base_url
        /\ actionable_elements' = act
        /\ page_data' =
              IF r.raised # ""
              THEN <<[raised |-> r.raised, actions |-> <<>>, possible_tasks |-> <<>>]>>
              ELSE <<[raised |-> "",
                      actions |-> get_available_actions(act),
                      possible_tasks |-> identify_possible_tasks(page.dom, act)]>>
        /\ UNCHANGED <<pc, start_url, depth0, max_pages, visited, stack, tree,
                       result, fetched, caller, checked, seen_again, site_links>>
        /\ UNCHANGED <<filter_vars, page_vars, purpose_vars, rate_vars>>

CatalogNext == ParseWebpage

CatalogSpec == Init /\ [][CatalogNext]_vars

\* The elements of a document that identify_interactive_elements is to find.
Interactive(e) ==
    \/ e.tag \in {"button", "input", "a", "select", "form"}
    \/ e.role \in {"button", "link", "menuitem"}

\* What a parser that has parsed no page before returns for `page`.
FreshPageData(page) ==
    LET act == identify_interactive_elements(page.dom, <<>>)
    IN [raised |-> "",
        actions |-> get_available_actions(act),
        possible_tasks |-> identify_possible_tasks(page.dom, act)]

\* C11. Per-page results do not leak across pages: whatever pages the parser
\* parsed before, the actions catalog returned for a page holds summaries of
\* elements of that page only, a search task is reported only if an element of
\* that page has purpose "search", and the result equals the one a fresh parser
\* returns for the page.
NoLeakAcrossPages ==
    page_data # <<>> /\ page_data[1].raised = "" =>
        LET dom     == page_source[1].dom
            actions == page_data[1].actions
            own     == {i \in 1..Len(dom) : Interactive(dom[i])}
        IN
        /\ \A p \in DOMAIN actions : \A k \in 1..Len(actions[p]) :
              \E i \in own :
                 /\ infer_purpose(Signals(dom[i])) = p
                 /\ actions[p][k].element_type = dom[i].tag
                 /\ actions[p][k].accessibility.role = dom[i].role
        /\ (\E k \in 1..Len(page_data[1].possible_tasks) :
                page_data[1].possible_tasks[k].type = "search")
              => \E i \in own : infer_purpose(Signals(dom[i])) = "search"
        /\ page_data[1] = FreshPageData(page_source[1])

-----------------------------------------------------------------------------
(* _respect_rate_limits and the fetch that follows it *)

\* The clock is followed up to this tick.
MaxTime == 6

\* time.sleep returns at most this many ticks late.
MaxOversleep == 1

\* Two pages of one domain and a page of another.
RateURLs == {<<"http", ":", "//", "a.com", "/">>,
             <<"http", ":", "//", "a.com", "/", "p1">>,
             <<"http", ":", "//", "b.com", "/">>}

\* Line 72.
domain == urlparse_netloc(rate_url)

\* A call that never sleeps.
sleep_nothing(e) == 0

\* Line 75: the argument of time.sleep.
sleep_seconds(e) == request_delay - e

\* A step of the rate limiter leaves the other variables alone.
RateOnly ==
    UNCHANGED <<crawl_vars, filter_vars, page_vars, purpose_vars, catalog_vars>>

\* parse_webpage(url) is called; line 92 calls _respect_rate_limits(url).
CallParseWebpage(url) ==
    /\ rate_pc = "idle"
    /\ rate_pc' = "line73"
    /\ rate_url' = url
    /\ elapsed' = 0
    /\ this_call' = NoCallYet
    /\ UNCHANGED <<now, last_request_time, last_fetch>>
    /\ RateOnly

\* Lines 72-74: the clock is read and compared with the domain's stamp.
Line73 ==
    /\ rate_pc = "line73"
    /\ elapsed' = now - last_request_time[domain]
    /\ rate_pc' = IF elapsed' < request_delay THEN "line75" ELSE "line76"
    /\ this_call' = [this_call EXCEPT !.read_at = <<now>>]
    /\ UNCHANGED <<now, last_request_time, rate_url, last_fetch>>
    /\ RateOnly

\* Line 75: time.sleep suspends the call for the given time or longer.
Line75 ==
    /\ rate_pc = "line75"
    /\ \E late \in 0..MaxOversleep :
          /\ now + sleep_seconds(elapsed) + late <= MaxTime
          /\ now' = now + sleep_seconds(elapsed) + late
    /\ rate_pc' = "line76"
    /\ this_call' = [this_call EXCEPT !.slept = <<now' - now>>]
    /\ UNCHANGED <<last_request_time, rate_url, elapsed, last_fetch>>
    /\ RateOnly

\* Line 76: the domain's stamp is set to the clock.
Line76 ==
    /\ rate_pc = "line76"
    /\ last_request_time' = [last_request_time EXCEPT ![domain] = now]
    /\ rate_pc' = "fetch"
    /\ this_call' = [this_call EXCEPT !.stamped = <<now>>, !.before = last_fetch[domain]]
    /\ UNCHANGED <<now, rate_url, elapsed, last_fetch>>
    /\ RateOnly

\* Lines 96 or 106: the fetch of the page starts; the rest of parse_webpage
\* takes its time and reads neither the clock nor the stamps.
FetchPage ==
    /\ rate_pc = "fetch"
    /\ rate_pc' = "idle"
    /\ this_call' = [this_call EXCEPT !.started = <<now>>]
    /\ last_fetch' = [last_fetch EXCEPT ![domain] = this_call.stamped]
    /\ UNCHANGED <<now, last_request_time, rate_url, elapsed>>
    /\ RateOnly

\* Time passes, between any two steps.
Tick ==
    /\ now < MaxTime
    /\ now' = now + 1
    /\ UNCHANGED <<last_request_time, rate_pc, rate_url, elapsed, last_fetch,
                   this_call>>
    /\ RateOnly

RateNext ==
    \/ \E url \in RateURLs : CallParseWebpage(url)
    \/ Line73
    \/ Line75
    \/ Line76
    \/ FetchPage
    \/ Tick

RateSpec == Init /\ [][RateNext]_vars

\* C12. Per-domain rate limiting: a fetch starts no earlier than request_delay
\* after the time stamped for the previous fetch of the same domain; the call
\* waits, then stamps, then fetches; it waits only when its own domain was
\* stamped less than request_delay before, and no step changes the stamp of a
\* domain other than that of the call that makes it.
RateLimitLaw ==
    /\ [](this_call.started # <<>> =>
            /\ this_call.before # <<>> =>
                  this_call.started[1] >= this_call.before[1] + request_delay
            /\ this_call.stamped # <<>>
            /\ this_call.read_at[1] <= this_call.stamped[1]
            /\ this_call.stamped[1] <= this_call.started[1]
            /\ this_call.slept # <<>> =>
                  this_call.stamped[1] >= this_call.read_at[1] + this_call.slept[1])
    /\ [](rate_pc = "line75" =>
            /\ last_fetch[domain] # <<>>
            /\ this_call.read_at[1] - last_fetch[domain][1] < request_delay
            /\ this_call.started = <<>>)
    /\ [][\A d \in Domains :
            last_request_time'[d] # last_request_time[d] =>
                d = domain /\ rate_pc = "line76"]_vars

\* A second page of a.com was fetched after a wait, while b.com, fetched
\* before, kept its stamp.
WaitedForOwnDomain ==
    /\ this_call.started # <<>>
    /\ this_call.slept # <<>>
    /\ domain = <<"a.com">>
    /\ this_call.before # <<>>
    /\ last_fetch[<<"b.com">>] # <<>>
    /\ last_request_time[<<"b.com">>] = last_fetch[<<"b.com">>][1]

-----------------------------------------------------------------------------
(* Properties of the crawl *)

Nodes == 1..Len(tree)

SetMax(S) == CHOOSE m \in S : \A x \in S : m >= x

\* Edges below node n in the index_tree.
RECURSIVE Height(_)
Height(n) ==
    IF tree[n].links = <<>> THEN 0
    ELSE 1 + SetMax({Height(tree[n].links[k]) : k \in 1..Len(tree[n].links)})

\* C1. Page cap: in every state of a traversal started with an empty visited
\* set, visited holds at most max_pages URLs, whether pages parse or fail.
PageCapLaw == Cardinality(visited) <= max_pages

\* A traversal of depth 3 that ended with the cap of 2 reached, a failed page,
\* and a link the filter admitted that the cap kept from being visited.
PageCapReached ==
    /\ pc = "done" /\ depth0 = 3 /\ max_pages = 2
    /\ Cardinality(visited) = 2
    /\ \E n \in Nodes : tree[n].error
    /\ \E c \in checked : c.verdict /\ c.link \notin visited

SameOriginLaw ==
    /\ \A c \in checked :
          /\ urlparse_netloc(c.base) = urlparse_netloc(start_url)
          /\ urlparse_netloc(c.link) # urlparse_netloc(start_url) => ~c.verdict
    /\ \A i \in 1..Len(fetched) :
          urlparse_netloc(fetched[i]) = urlparse_netloc(start_url)

\* A link to another host was checked below the root, when self.base_url was no
\* longer the start URL.
ForeignLinkBelowRoot ==
    \E c \in checked :
        /\ urlparse_netloc(c.link) # urlparse_netloc(start_url)
        /\ c.base # start_url
        /\ ~c.verdict

\* The node whose links list holds n, 0 when no list does.
ParentOf(n) ==
    IF \E p \in Nodes : \E k \in 1..Len(tree[p].links) : tree[p].links[k] = n
    THEN CHOOSE p \in Nodes : \E k \in 1..Len(tree[p].links) : tree[p].links[k] = n
    ELSE 0

FailureStep == Len(tree') = Len(tree) + 1 /\ tree'[Len(tree')].error

\* C5. Failure locality: a failed parse_webpage yields a node with the URL, an
\* error and no children; no loop runs over that page's links; the exception
\* never leaves traverse_links; the caller's loop appends the node and goes on
\* with the link after the failed one.
FailureLocal ==
    /\ [](/\ pc # "raised"
          /\ \A n \in Nodes : tree[n].error => tree[n].links = <<>>
          /\ \A k \in 1..Len(stack) : ~tree[stack[k].node].error)
    /\ [][FailureStep =>
            LET id == Len(tree') IN
            /\ tree'[id].url = fetched'[Len(fetched')]
            /\ IF stack = <<>>
               THEN pc' = "done" /\ result' = id
               ELSE /\ pc' = "running"
                    /\ Len(stack') = Len(stack)
                    /\ stack'[Len(stack)] = [Top EXCEPT !.i = Top.i + 1]
                    /\ tree'[Top.node].links = Append(tree[Top.node].links, id)]_vars

\* A traversal ended in which a page failed and a later link of the same parent
\* was visited.
SiblingAfterFailure ==
    /\ pc = "done"
    /\ \E p \in Nodes : \E k \in 1..Len(tree[p].links) :
          /\ tree[tree[p].links[k]].error
          /\ k < Len(tree[p].links)

\* C6. Termination: a running traverse_links eventually returns, whatever the
\* link graph (cycles and self-links included).
Termination == (pc = "running") ~> (pc = "done")

\* A traversal returned after meeting a link back to its start page.
ReturnedFromCycle ==
    /\ pc = "done"
    /\ start_url \in seen_again
    /\ Len(fetched) >= 2

=============================================================================
